---- MODULE Spec2Model ----
(***************************************************************************)
(* A model of packngo's transport core (src/packngo.go): the rate-limit    *)
(* header parser Response.populateRate, the error classifier CheckResponse *)
(* and the dispatcher Client.Do, run by one caller (Spec), by several      *)
(* concurrent callers sharing one Client (SpecConc), and populateRate on   *)
(* its own over all short header strings (SpecRate).                       *)
(***************************************************************************)
EXTENDS Integers, Sequences, FiniteSets, TLC

\* ------------------------------------------------------------------ bounds
\* Longest rate-limit header value (in characters) that SpecRate enumerates.
MaxLen == 2
\* Width in bits of Go's int as modelled (the real width is 32 or 64).
IntBits == 5
\* Width in bits of the int64 that ParseInt(reset, 10, 64) yields, as modelled.
Int64Bits == 6
\* Number of goroutines that call Do on the one Client in SpecConc.
NumCallers == 2

\* ----------------------------------------------------- strings and strconv
\* A string is a sequence of one-character strings; "" is << >>.
Alphabet == {"0", "1", "9", "-", "+", "x"}

HeaderStrings == UNION {[1..n -> Alphabet] : n \in 0..MaxLen}

IsDigit(c) == c \in {"0", "1", "2", "3", "4", "5", "6", "7", "8", "9"}

DigitVal(c) ==
    CASE c = "0" -> 0 [] c = "1" -> 1 [] c = "2" -> 2 [] c = "3" -> 3
      [] c = "4" -> 4 [] c = "5" -> 5 [] c = "6" -> 6 [] c = "7" -> 7
      [] c = "8" -> 8 [] c = "9" -> 9

RECURSIVE Pow2(_)
Pow2(k) == IF k = 0 THEN 1 ELSE 2 * Pow2(k - 1)

\* strconv.ParseUint(s, 10, bitSize), the digit loop: a character that is no
\* digit is a syntax error (value 0); an overflow stops the loop at once with
\* the largest value and a range error, whatever follows.
RECURSIVE ParseUintLoop(_, _, _)
ParseUintLoop(s, n, maxVal) ==
    IF s = << >> THEN [n |-> n, err |-> "nil"]
    ELSE IF ~IsDigit(Head(s)) THEN [n |-> 0, err |-> "syntax"]
    ELSE IF n >= (maxVal \div 10) + 1 THEN [n |-> maxVal, err |-> "range"]
    ELSE LET n1 == n * 10 + DigitVal(Head(s))
         IN  IF n1 > maxVal THEN [n |-> maxVal, err |-> "range"]
             ELSE ParseUintLoop(Tail(s), n1, maxVal)

ParseUint(s, bitSize) ==
    IF s = << >> THEN [n |-> 0, err |-> "syntax"]
    ELSE ParseUintLoop(s, 0, Pow2(bitSize) - 1)

\* strconv.ParseInt(s, 10, bitSize): an optional sign, then ParseUint; a value
\* that does not fit is replaced by the nearest bound, with a range error.
ParseInt(s, bitSize) ==
    IF s = << >> THEN [n |-> 0, err |-> "syntax"]
    ELSE LET neg    == Head(s) = "-"
             digits == IF Head(s) \in {"+", "-"} THEN Tail(s) ELSE s
             un     == ParseUint(digits, bitSize)
             cutoff == Pow2(bitSize - 1)
         IN  IF un.err = "syntax" THEN [n |-> 0, err |-> "syntax"]
             ELSE IF ~neg /\ un.n >= cutoff THEN [n |-> cutoff - 1, err |-> "range"]
             ELSE IF neg /\ un.n > cutoff THEN [n |-> 0 - cutoff, err |-> "range"]
             ELSE [n |-> IF neg THEN 0 - un.n ELSE un.n, err |-> "nil"]

\* strconv.Atoi(s): ParseInt at the width of int.
Atoi(s) == ParseInt(s, IntBits)

\* ------------------------------------------------------------------- Rate
\* Timestamp{time.Time}: the zero value, or time.Unix(v, 0).
ZeroTime == [IsZero |-> TRUE, Unix |-> 0]

TimeUnix(v) == [IsZero |-> FALSE, Unix |-> v]

\* The zero Rate a fresh Response{Response: resp} embeds.
ZeroRate == [RequestLimit |-> 0, RequestsRemaining |-> 0, Reset |-> ZeroTime]

RateFields == {"RequestLimit", "RequestsRemaining", "Reset"}

\* http.Header restricted to the three headers read; Get gives "" when absent.
NoHeader == [Limit |-> << >>, Remaining |-> << >>, Reset |-> << >>]

\* populateRate without the v != 0 test: a reset header of "0" becomes the epoch.
populateRateNoZeroTest(r0, h) ==
    LET r1 == IF h.Limit # << >>
              THEN [r0 EXCEPT !.RequestLimit = Atoi(h.Limit).n] ELSE r0
        r2 == IF h.Remaining # << >>
              THEN [r1 EXCEPT !.RequestsRemaining = Atoi(h.Remaining).n] ELSE r1
    IN  IF h.Reset # << >>
        THEN [r2 EXCEPT !.Reset = TimeUnix(ParseInt(h.Reset, Int64Bits).n)] ELSE r2

\* Response.populateRate on a wrapper whose Rate is r0 and whose headers are h.
populateRate(r0, h) ==
    LET r1 == IF h.Limit # << >>
              THEN [r0 EXCEPT !.RequestLimit = Atoi(h.Limit).n] ELSE r0
        r2 == IF h.Remaining # << >>
              THEN [r1 EXCEPT !.RequestsRemaining = Atoi(h.Remaining).n] ELSE r1
        v  == ParseInt(h.Reset, Int64Bits).n
    IN  IF h.Reset # << >> /\ v # 0 THEN [r2 EXCEPT !.Reset = TimeUnix(v)] ELSE r2

\* ------------------------------------------------------------------- JSON
\* A JSON value: null, a number, a string, an array, or an object whose
\* members are a function from member names to JSON values.
JNull == [t |-> "null"]

JNum(n) == [t |-> "num", n |-> n]

JStr(s) == [t |-> "str", s |-> s]

JArr == [t |-> "arr"]

JObj(m) == [t |-> "obj", m |-> m]

\* A response body: no bytes, bytes that are not JSON, or the text of a JSON value.
EmptyBody == [kind |-> "empty", val |-> JNull]

TextBody == [kind |-> "text", val |-> JNull]

JsonBody(j) == [kind |-> "json", val |-> j]

\* encoding/json matches a member name to a struct field by its exact name
\* or, failing that, case-insensitively: the spellings used here.
KeysFor(field) ==
    CASE field = "Message"    -> {"Message", "message", "MESSAGE"}
      [] field = "Response"   -> {"Response", "response"}
      [] field = "StatusCode" -> {"StatusCode", "statuscode"}
      [] field = "Request"    -> {"Request", "request"}
      [] field = "Method"     -> {"Method", "method"}
      [] field = "URL"        -> {"URL", "url"}
      [] field = "Path"       -> {"Path", "path"}

HasMember(obj, field) == obj.t = "obj" /\ (DOMAIN obj.m) \cap KeysFor(field) # {}

Member(obj, field) == obj.m[CHOOSE k \in (DOMAIN obj.m) \cap KeysFor(field) : TRUE]

HasTyped(obj, field, t) == HasMember(obj, field) /\ Member(obj, field).t = t

\* --------------------------------------------------------- values of a call
NilPtr == "nil"

\* The address of the one *http.Response of a call: Response.Response and
\* ErrorResponse.Response both hold it.
RespPtr == "resp"

NoRequest == [Method |-> "", URL |-> [Path |-> ""]]

\* The http.Response object of a call, before the transport has answered.
NoResp == [StatusCode |-> 0, Request |-> NoRequest, BodyRead |-> FALSE, Closed |-> FALSE]

NoWire == [received |-> FALSE, StatusCode |-> 0, Header |-> NoHeader, Body |-> EmptyBody]

NilErr == [kind |-> "nil", cause |-> "", Response |-> NilPtr, Message |-> ""]

TransportErr(e) == [kind |-> "transport", cause |-> e, Response |-> NilPtr, Message |-> ""]

DecodeErr(e) == [kind |-> "json", cause |-> e, Response |-> NilPtr, Message |-> ""]

\* The destination v of Do: nil, an io.Writer (what it was written), or a
\* pointer to a struct for json (what was decoded into it).
Dest(kind) == [kind |-> kind, written |-> EmptyBody, decoded |-> FALSE, val |-> JNull]

\* A call's own state in Do: its arguments req and v, the response as the
\* server sent it (wire) and the error the transport gave (terr), the
\* http.Response object (resp), the wrapper's Rate (rate), the fields of it
\* not yet copied to the Client (pending), Client.RateLimit as it was on
\* entry (before), and what Do returned (ret).
NoCall ==
    [req |-> NoRequest, v |-> Dest("nil"), wire |-> NoWire, resp |-> NoResp,
     rate |-> ZeroRate, pending |-> {}, before |-> ZeroRate, terr |-> "",
     ret |-> [resp |-> NilPtr, err |-> NilErr]]

\* ------------------------------------------------------------ ErrorResponse
\* json.Unmarshal(data, errorResponse) for data that is the JSON value j,
\* errorResponse = er (kind "ErrorResponse") and *er.Response = r. Both fields
\* of ErrorResponse are exported and untagged, so a member named Message or
\* Response is decoded into them: a string sets Message; null sets the
\* Response pointer to nil; an object is decoded into the http.Response the
\* pointer already holds. A member of another type is skipped.
UnmarshalRequest(j, q) ==
    LET q1 == IF HasTyped(j, "Method", "str")
              THEN [q EXCEPT !.Method = Member(j, "Method").s] ELSE q
    IN  IF HasTyped(j, "URL", "obj") /\ HasTyped(Member(j, "URL"), "Path", "str")
        THEN [q1 EXCEPT !.URL.Path = Member(Member(j, "URL"), "Path").s] ELSE q1

UnmarshalResponse(j, r) ==
    LET r1 == IF HasTyped(j, "StatusCode", "num")
              THEN [r EXCEPT !.StatusCode = Member(j, "StatusCode").n] ELSE r
    IN  IF HasTyped(j, "Request", "obj")
        THEN [r1 EXCEPT !.Request = UnmarshalRequest(Member(j, "Request"), r1.Request)]
        ELSE r1

UnmarshalErrorResponse(j, er, r) ==
    IF j.t # "obj" THEN [er |-> er, r |-> r]
    ELSE LET er1 == IF HasTyped(j, "Message", "str")
                    THEN [er EXCEPT !.Message = Member(j, "Message").s] ELSE er
         IN  IF HasTyped(j, "Response", "null")
             THEN [er |-> [er1 EXCEPT !.Response = NilPtr], r |-> r]
             ELSE IF HasTyped(j, "Response", "obj")
             THEN [er |-> er1, r |-> UnmarshalResponse(Member(j, "Response"), r)]
             ELSE [er |-> er1, r |-> r]

\* CheckResponse(r) for the response object r whose body holds `body`: the
\* error, and the response object as CheckResponse leaves it.
CheckResponse(r, body) ==
    IF r.StatusCode >= 200 /\ r.StatusCode <= 299 THEN [err |-> NilErr, r |-> r]
    ELSE LET errorResponse == [kind |-> "ErrorResponse", cause |-> "",
                               Response |-> RespPtr, Message |-> ""]
             drained == [r EXCEPT !.BodyRead = TRUE]
         IN  IF body.kind = "json"
             THEN LET u == UnmarshalErrorResponse(body.val, errorResponse, drained)
                  IN  [err |-> u.er, r |-> u.r]
             ELSE [err |-> errorResponse, r |-> drained]

\* ErrorResponse.Error(): method, URL, status code and message, read through
\* the Response pointer; a nil pointer makes the call panic.
ErrorText(er, r) ==
    IF er.Response = NilPtr
    THEN [panic |-> TRUE, Method |-> "", URL |-> "", StatusCode |-> 0, Message |-> ""]
    ELSE [panic |-> FALSE, Method |-> r.Request.Method, URL |-> r.Request.URL.Path,
          StatusCode |-> r.StatusCode, Message |-> er.Message]

\* --------------------------------------------------------------- Client.Do
\* json.NewDecoder(resp.Body).Decode(v) for a v that points to a struct: no
\* bytes give io.EOF, bytes that are not JSON a syntax error, a JSON value
\* that is no object a type error (null is accepted and decodes nothing).
Decode(v, body) ==
    IF body.kind = "empty" THEN [v |-> v, err |-> DecodeErr("EOF")]
    ELSE IF body.kind = "text" THEN [v |-> v, err |-> DecodeErr("SyntaxError")]
    ELSE IF body.val.t = "obj"
         THEN [v |-> [v EXCEPT !.decoded = TRUE, !.val = body.val], err |-> NilErr]
    ELSE IF body.val.t = "null" THEN [v |-> v, err |-> NilErr]
    ELSE [v |-> v, err |-> DecodeErr("UnmarshalTypeError")]

\* Do without the io.Writer test: every destination is decoded into.
DeliverAlwaysDecode(v, body) ==
    IF v.kind = "nil" THEN [v |-> v, err |-> NilErr, read |-> FALSE]
    ELSE [v |-> Decode(v, body).v, err |-> Decode(v, body).err, read |-> TRUE]

\* Lines 142-152 of Do, reached when CheckResponse found no error: nothing
\* for a nil v, io.Copy (its result dropped) for an io.Writer, Decode otherwise.
Deliver(v, body) ==
    IF v.kind = "nil" THEN [v |-> v, err |-> NilErr, read |-> FALSE]
    ELSE IF v.kind = "writer"
         THEN [v |-> [v EXCEPT !.written = body], err |-> NilErr, read |-> TRUE]
    ELSE [v |-> Decode(v, body).v, err |-> Decode(v, body).err, read |-> TRUE]

\* The deferred resp.Body.Close(), bound to the body when line 130 ran.
CloseBody(r) == [r EXCEPT !.Closed = TRUE]

\* Do returns without closing the body when CheckResponse reports an error.
DoFinishNoDefer(c) ==
    LET chk == CheckResponse(c.resp, c.wire.Body)
        d   == Deliver(c.v, c.wire.Body)
    IN  IF chk.err.kind # "nil"
        THEN [c EXCEPT !.resp = chk.r, !.ret = [resp |-> RespPtr, err |-> chk.err]]
        ELSE [c EXCEPT !.v = d.v,
                       !.resp = CloseBody([chk.r EXCEPT !.BodyRead = d.read]),
                       !.ret = [resp |-> RespPtr, err |-> d.err]]

\* Do hands the body to the destination before it looks at the status.
DoFinishDeliverFirst(c) ==
    LET d   == Deliver(c.v, c.wire.Body)
        chk == CheckResponse(c.resp, EmptyBody)
    IN  [c EXCEPT !.v = d.v, !.resp = CloseBody(chk.r),
                  !.ret = [resp |-> RespPtr,
                           err |-> IF chk.err.kind # "nil" THEN chk.err ELSE d.err]]

\* Lines 136-154 of Do and the deferred Close, on the call's own state c.
DoFinish(c) ==
    LET chk == CheckResponse(c.resp, c.wire.Body)
        d   == Deliver(c.v, c.wire.Body)
    IN  IF chk.err.kind # "nil"
        THEN [c EXCEPT !.resp = CloseBody(chk.r),
                       !.ret = [resp |-> RespPtr, err |-> chk.err]]
        ELSE [c EXCEPT !.v = d.v,
                       !.resp = CloseBody([chk.r EXCEPT !.BodyRead = d.read]),
                       !.ret = [resp |-> RespPtr, err |-> d.err]]

\* Do wraps the transport's error instead of returning it as it is.
TransportFailureWrapped(c, e) ==
    [c EXCEPT !.ret = [resp |-> NilPtr, err |-> TransportErr("wrapped")]]

\* Lines 126-128 of Do: the transport's error, and no wrapper.
TransportFailure(c, e) == [c EXCEPT !.ret = [resp |-> NilPtr, err |-> TransportErr(e)]]

\* Do stores the snapshot only when the status is 2xx.
StoredOnSuccessOnly(c, f) ==
    IF c.wire.StatusCode >= 200 /\ c.wire.StatusCode <= 299 THEN c.rate[f] ELSE c.before[f]

\* Line 134 of Do, c.RateLimit = response.Rate: the value field f receives.
Stored(c, f) == c.rate[f]

\* ------------------------------------------------------------------ state
VARIABLES
    RateLimit,  \* Client.RateLimit, shared by every call on the client
    pc,         \* where each caller is in Do
    call,       \* each caller's own state in Do: arguments, locals, results
    last,       \* the headers of the latest response the transport returned
    hdr,        \* SpecRate: the headers populateRate reads
    rate,       \* SpecRate: the Rate of the wrapper populateRate is called on
    rpc         \* SpecRate: "new" before populateRate has run, "populated" after

vars == <<RateLimit, pc, call, last, hdr, rate, rpc>>

Callers == 1..NumCallers

Str1(a) == <<a>>

Str2(a, b) == <<a, b>>

\* ------------------------------------------------------------- input sets
Requests ==
    {[Method |-> "GET", URL |-> [Path |-> "/plans"]],
     [Method |-> "POST", URL |-> [Path |-> "/devices"]]}

DestKinds == {"nil", "writer", "json"}

Statuses == {199, 200, 299, 300, 422}

TransportErrors == {"connection refused", "timeout"}

Headers ==
    {NoHeader,
     [Limit |-> Str2("1", "0"), Remaining |-> Str1("9"), Reset |-> Str2("1", "1")],
     [Limit |-> Str1("9"), Remaining |-> << >>, Reset |-> Str1("0")],
     [Limit |-> Str1("x"), Remaining |-> Str1("1"), Reset |-> Str1("x")],
     [Limit |-> Str2("9", "9"), Remaining |-> Str2("-", "1"), Reset |-> Str1("9")],
     [Limit |-> Str1("1"), Remaining |-> Str1("0"), Reset |-> Str2("9", "9")]}

Bodies ==
    {EmptyBody, TextBody,
     JsonBody(JArr),
     JsonBody(JObj([plans |-> JArr])),
     JsonBody(JObj([message |-> JStr("invalid hostname")])),
     JsonBody(JObj([Message |-> JStr("not found")])),
     JsonBody(JObj([message |-> JNum(42)])),
     JsonBody(JObj([Response |-> JObj([StatusCode |-> JNum(200)])])),
     JsonBody(JObj([Response |-> JNull])),
     JsonBody(JObj([message |-> JStr("denied"),
                    response |-> JObj([Request |-> JObj([Method |-> JStr("DELETE"),
                                        URL |-> JObj([Path |-> JStr("/admin")])])])]))}

\* ---------------------------------------------------------------- actions
\* A caller enters Do(req, v).
DoCall(p, r, d) ==
    /\ pc[p] = "idle"
    /\ call' = [call EXCEPT ![p] = [NoCall EXCEPT !.req = r, !.v = Dest(d),
                                                  !.before = RateLimit]]
    /\ pc' = [pc EXCEPT ![p] = "transport"]
    /\ UNCHANGED <<RateLimit, last, hdr, rate, rpc>>

\* Lines 125-128: c.client.Do(req) fails; Do returns at once.
TransportFail(p, e) ==
    /\ pc[p] = "transport"
    /\ call' = [call EXCEPT ![p] = [TransportFailure(call[p], e) EXCEPT !.terr = e]]
    /\ pc' = [pc EXCEPT ![p] = "done"]
    /\ UNCHANGED <<RateLimit, last, hdr, rate, rpc>>

\* Lines 125-133: c.client.Do(req) returns a response; the Close is deferred,
\* the wrapper is built and populateRate fills its Rate.
TransportRespond(p, st, h, b) ==
    /\ pc[p] = "transport"
    /\ call' = [call EXCEPT ![p] =
                  [@ EXCEPT !.wire = [received |-> TRUE, StatusCode |-> st,
                                      Header |-> h, Body |-> b],
                            !.resp = [StatusCode |-> st, Request |-> call[p].req,
                                      BodyRead |-> FALSE, Closed |-> FALSE],
                            !.rate = populateRate(ZeroRate, h),
                            !.pending = RateFields]]
    /\ pc' = [pc EXCEPT ![p] = "store"]
    /\ last' = [any |-> TRUE, Header |-> h]
    /\ UNCHANGED <<RateLimit, hdr, rate, rpc>>

\* Line 134, c.RateLimit = response.Rate: a plain struct copy with no lock,
\* so the fields reach the shared Client one at a time, in no fixed order.
StoreRate(p, f) ==
    /\ pc[p] = "store"
    /\ f \in call[p].pending
    /\ RateLimit' = [RateLimit EXCEPT ![f] = Stored(call[p], f)]
    /\ call' = [call EXCEPT ![p].pending = @ \ {f}]
    /\ pc' = [pc EXCEPT ![p] = IF call[p].pending = {f} THEN "check" ELSE "store"]
    /\ UNCHANGED <<last, hdr, rate, rpc>>

\* Lines 136-154 and the deferred Close: Do returns.
Finish(p) ==
    /\ pc[p] = "check"
    /\ call' = [call EXCEPT ![p] = DoFinish(call[p])]
    /\ pc' = [pc EXCEPT ![p] = "done"]
    /\ UNCHANGED <<RateLimit, last, hdr, rate, rpc>>

\* The caller has taken Do's results and is free to call again.
Return(p) ==
    /\ pc[p] = "done"
    /\ call' = [call EXCEPT ![p] = NoCall]
    /\ pc' = [pc EXCEPT ![p] = "idle"]
    /\ UNCHANGED <<RateLimit, last, hdr, rate, rpc>>

\* SpecRate: populateRate runs on a fresh wrapper.
PopulateRate ==
    /\ rpc = "new"
    /\ rate' = populateRate(rate, hdr)
    /\ rpc' = "populated"
    /\ UNCHANGED <<RateLimit, pc, call, last, hdr>>

\* ---------------------------------------------------------- specifications
InitDo ==
    /\ RateLimit = ZeroRate
    /\ pc = [p \in Callers |-> "idle"]
    /\ call = [p \in Callers |-> NoCall]
    /\ last = [any |-> FALSE, Header |-> NoHeader]

Init == InitDo /\ hdr = NoHeader /\ rate = ZeroRate /\ rpc = "populated"

\* One caller: each Do call returns before the next one starts.
Next ==
    \/ \E r \in Requests, d \in DestKinds : DoCall(1, r, d)
    \/ \E e \in TransportErrors : TransportFail(1, e)
    \/ \E st \in Statuses, h \in Headers, b \in Bodies : TransportRespond(1, st, h, b)
    \/ \E f \in RateFields : StoreRate(1, f)
    \/ Finish(1)
    \/ Return(1)

Spec == Init /\ [][Next]_vars

\* Several goroutines, one Do call each, on the same Client.
ConcRequest == [Method |-> "GET", URL |-> [Path |-> "/plans"]]

ConcHeaders ==
    {[Limit |-> Str1("1"), Remaining |-> Str1("1"), Reset |-> Str1("1")],
     [Limit |-> Str1("9"), Remaining |-> Str1("9"), Reset |-> Str1("9")],
     [Limit |-> Str2("1", "0"), Remaining |-> << >>, Reset |-> << >>]}

NextConc ==
    \E p \in Callers :
        \/ DoCall(p, ConcRequest, "nil")
        \/ TransportFail(p, "timeout")
        \/ \E h \in ConcHeaders : TransportRespond(p, 200, h, EmptyBody)
        \/ \E f \in RateFields : StoreRate(p, f)
        \/ Finish(p)

SpecConc == Init /\ [][NextConc]_vars

\* populateRate alone, over every header string of up to MaxLen characters in
\* one header and a sample in the other two.
SampleStrings == {<< >>, Str1("0"), Str1("9"), Str1("x")}

RateInputs ==
    {h \in [Limit : HeaderStrings, Remaining : HeaderStrings, Reset : HeaderStrings] :
        Cardinality({k \in {"Limit", "Remaining", "Reset"} : h[k] \notin SampleStrings}) <= 1}

InitRate == InitDo /\ hdr \in RateInputs /\ rate = ZeroRate /\ rpc = "new"

NextRate == PopulateRate

SpecRate == InitRate /\ [][NextRate]_vars

\* ------------------------------------------------------------------ claims
Is2xx(st) == st >= 200 /\ st <= 299

\* A Do call of caller p has returned after the transport gave a response.
Answered(p) == pc[p] = "done" /\ call[p].wire.received

\* A Do call of caller p has returned after the transport failed.
Failed(p) == pc[p] = "done" /\ ~call[p].wire.received

DigitChar(d) ==
    CASE d = 0 -> "0" [] d = 1 -> "1" [] d = 2 -> "2" [] d = 3 -> "3" [] d = 4 -> "4"
      [] d = 5 -> "5" [] d = 6 -> "6" [] d = 7 -> "7" [] d = 8 -> "8" [] d = 9 -> "9"

\* The decimal text of an integer, as strconv.Itoa writes it.
RECURSIVE ItoaNat(_)
ItoaNat(n) == IF n < 10 THEN <<DigitChar(n)>> ELSE Append(ItoaNat(n \div 10), DigitChar(n % 10))

Itoa(n) == IF n < 0 THEN <<"-">> \o ItoaNat(0 - n) ELSE ItoaNat(n)

IntRange == (0 - Pow2(IntBits - 1)) .. (Pow2(IntBits - 1) - 1)

Int64Range == (0 - Pow2(Int64Bits - 1)) .. (Pow2(Int64Bits - 1) - 1)

\* C1: for every response, Do returns a nil error when the status is in
\* 200..299, and otherwise a non-nil ErrorResponse whose status equals the
\* status code of the response the transport returned.
C1_ErrorMatchesStatus ==
    \A p \in Callers :
        Answered(p) =>
            LET c == call[p]
            IN  IF Is2xx(c.wire.StatusCode) THEN c.ret.err = NilErr
                ELSE /\ c.ret.err.kind = "ErrorResponse"
                     /\ ~ErrorText(c.ret.err, c.resp).panic
                     /\ ErrorText(c.ret.err, c.resp).StatusCode = c.wire.StatusCode

\* C2: when the transport fails, Do returns a nil wrapper and exactly the
\* transport's error, and Client.RateLimit is what it was before the call.
C2_TransportFailure ==
    Failed(1) =>
        /\ call[1].ret.resp = NilPtr
        /\ call[1].ret.err = TransportErr(call[1].terr)
        /\ RateLimit = call[1].before

\* A transport failure on a client whose RateLimit an earlier call had set.
C2_Witness ==
    /\ Failed(1)
    /\ call[1].terr = "connection refused"
    /\ call[1].before # ZeroRate

\* C3: once a call has stored its snapshot, and so after any sequence of Do
\* calls, Client.RateLimit is the snapshot of the headers of the latest
\* response the transport returned, and is the Rate of the wrapper that call
\* returned, whatever the status and whether or not decoding failed.
C3_LatestSnapshot ==
    /\ pc[1] \in {"idle", "check", "done"} =>
          RateLimit = IF last.any THEN populateRate(ZeroRate, last.Header) ELSE ZeroRate
    /\ Answered(1) => call[1].ret.resp = RespPtr /\ call[1].rate = RateLimit

\* A non-2xx response has replaced the snapshot an earlier call left.
C3_Witness ==
    /\ Answered(1)
    /\ call[1].wire.StatusCode = 422
    /\ call[1].ret.err.kind = "ErrorResponse"
    /\ call[1].before # ZeroRate
    /\ RateLimit # call[1].before
    /\ RateLimit # ZeroRate

\* C4: for every non-2xx response Do returns the wrapper with the error and
\* leaves the destination as it was (nothing written, nothing decoded); the
\* error's message is the string message member of a JSON object body, and is
\* empty for an empty body and for a body that is not JSON.
C4_ErrorLeavesDestination ==
    \A p \in Callers :
        (Answered(p) /\ ~Is2xx(call[p].wire.StatusCode)) =>
            LET c == call[p]
                b == c.wire.Body
            IN  /\ c.ret.resp = RespPtr
                /\ c.ret.err.kind = "ErrorResponse"
                /\ c.v = Dest(c.v.kind)
                /\ (b.kind = "json" /\ HasTyped(b.val, "Message", "str"))
                      => c.ret.err.Message = Member(b.val, "Message").s
                /\ b.kind \in {"empty", "text"} => c.ret.err.Message = ""

\* The 422 of the spec's scenario, with a JSON destination.
C4_Witness ==
    /\ Answered(1)
    /\ call[1].wire.StatusCode = 422
    /\ call[1].wire.Body = JsonBody(JObj([message |-> JStr("invalid hostname")]))
    /\ call[1].v.kind = "json"
    /\ call[1].ret.err.Message = "invalid hostname"

\* C5: for every 2xx response and an io.Writer destination, Do copies the
\* body as it is into the writer, decodes nothing, and returns the wrapper
\* with a nil error, whether or not the body is JSON.
C5_RawSinkCopy ==
    \A p \in Callers :
        (Answered(p) /\ Is2xx(call[p].wire.StatusCode) /\ call[p].v.kind = "writer") =>
            /\ call[p].v.written = call[p].wire.Body
            /\ ~call[p].v.decoded
            /\ call[p].ret.err = NilErr
            /\ call[p].ret.resp = RespPtr

\* A body that is not JSON has been copied into a writer.
C5_Witness ==
    /\ Answered(1)
    /\ call[1].wire.StatusCode = 200
    /\ call[1].v.kind = "writer"
    /\ call[1].wire.Body = TextBody
    /\ call[1].v.written = TextBody

\* C6: whenever the transport returned a response, its body is closed once Do
\* has returned, on every return path.
C6_BodyClosed == \A p \in Callers : Answered(p) => call[p].resp.Closed

\* Do has returned an error for a response, and the body is closed.
C6_Witness ==
    /\ Answered(1)
    /\ call[1].ret.err.kind \in {"ErrorResponse", "json"}
    /\ call[1].resp.Closed

\* C7: populateRate sets the limit and the remaining count to the integers
\* their headers spell, and the reset time to the Unix time of the integer
\* the reset header spells, except that a reset of zero leaves it unset; an
\* absent header leaves its field at zero, and each field depends on its own
\* header only.
C7_PopulateRate ==
    rpc = "populated" =>
        /\ \A n \in IntRange :
              /\ hdr.Limit = Itoa(n) => rate.RequestLimit = n
              /\ hdr.Remaining = Itoa(n) => rate.RequestsRemaining = n
        /\ \A n \in Int64Range :
              hdr.Reset = Itoa(n) => rate.Reset = IF n = 0 THEN ZeroTime ELSE TimeUnix(n)
        /\ hdr.Limit = << >> => rate.RequestLimit = 0
        /\ hdr.Remaining = << >> => rate.RequestsRemaining = 0
        /\ hdr.Reset = << >> => rate.Reset = ZeroTime
        /\ rate.RequestLimit = populateRate(ZeroRate, [NoHeader EXCEPT !.Limit = hdr.Limit]).RequestLimit
        /\ rate.RequestsRemaining =
              populateRate(ZeroRate, [NoHeader EXCEPT !.Remaining = hdr.Remaining]).RequestsRemaining
        /\ rate.Reset = populateRate(ZeroRate, [NoHeader EXCEPT !.Reset = hdr.Reset]).Reset

\* A limit of 11, no remaining header and a reset of "0".
C7_Witness ==
    /\ rpc = "populated"
    /\ hdr = [Limit |-> Str2("1", "1"), Remaining |-> << >>, Reset |-> Str1("0")]
    /\ rate = [RequestLimit |-> 11, RequestsRemaining |-> 0, Reset |-> ZeroTime]

\* C8: a rate-limit header that fails to parse as an integer (text that is no
\* number, or digits out of the integer's range) leaves its field at zero,
\* and the headers never change the error Do returns.
C8_ParseFailureLeavesZero ==
    \A p \in Callers :
        Answered(p) =>
            LET c == call[p]
                h == c.wire.Header
                plain == [c EXCEPT !.wire.Header = NoHeader,
                                   !.resp = [StatusCode |-> c.wire.StatusCode, Request |-> c.req,
                                             BodyRead |-> FALSE, Closed |-> FALSE],
                                   !.v = Dest(c.v.kind)]
            IN  /\ Atoi(h.Limit).err # "nil" => c.rate.RequestLimit = 0
                /\ Atoi(h.Remaining).err # "nil" => c.rate.RequestsRemaining = 0
                /\ ParseInt(h.Reset, Int64Bits).err # "nil" => c.rate.Reset = ZeroTime
                /\ c.ret.err = DoFinish(plain).ret.err

\* C9: once all the concurrent calls have returned, Client.RateLimit is the
\* whole snapshot of one of the calls that got a response, never fields of
\* different responses put together.
C9_LastWriterWins ==
    (\A p \in Callers : pc[p] = "done") =>
        IF \E p \in Callers : call[p].wire.received
        THEN \E p \in Callers : call[p].wire.received /\ RateLimit = call[p].rate
        ELSE RateLimit = ZeroRate

\* C10: for every non-2xx response the error holds the response, and reports
\* the method and URL of the request sent and the status received; the body
\* sets the message only, and changes neither these nor the status code of
\* the wrapper Do returns.
C10_BodySetsMessageOnly ==
    \A p \in Callers :
        (Answered(p) /\ ~Is2xx(call[p].wire.StatusCode)) =>
            LET c == call[p]
                t == ErrorText(c.ret.err, c.resp)
            IN  /\ c.ret.err.Response = RespPtr
                /\ t.Method = c.req.Method
                /\ t.URL = c.req.URL.Path
                /\ t.StatusCode = c.wire.StatusCode
                /\ c.resp.StatusCode = c.wire.StatusCode
====
